---- MODULE Spec2Model ----
(***************************************************************************)
(* tiny-parsec: the parser-combinator core (parser/container.go,           *)
(* parser/basic.go, parser/combinator.go).                                 *)
(*                                                                         *)
(* A Go string is a sequence of one-character strings, a rune is a         *)
(* one-character string, a slice is a sequence.  A Parser[T] is a record   *)
(* naming the combinator that built it and that combinator's captured      *)
(* operands; Parse(p, s) runs the closure the combinator returned.         *)
(* A closure passed to Fmap or Bind is a record too, applied by ApplyFn    *)
(* and ApplyK.                                                             *)
(***************************************************************************)
EXTENDS Integers, Sequences, FiniteSets, TLC

VARIABLES input, parser, result, calls, op, args

vars == <<input, parser, result, calls, op, args>>

-----------------------------------------------------------------------------
(* Parser values, one constructor per combinator of the package: the       *)
(* field k names the combinator, the other fields are what its closure     *)
(* captured.                                                               *)

\* combinator.go:7
Fmap(x, y) == [k |-> "Fmap", p |-> x, f |-> y]

\* combinator.go:21
Bind(x, y) == [k |-> "Bind", p |-> x, f |-> y]

\* combinator.go:34
OrElse(x) == [k |-> "OrElse", ps |-> x]

\* combinator.go:48
ZeroOrMore(x) == [k |-> "ZeroOrMore", p |-> x]

\* combinator.go:63
OneOrMore(x) == [k |-> "OneOrMore", p |-> x]

\* combinator.go:78
ZeroOrOne(x) == [k |-> "ZeroOrOne", p |-> x]

\* combinator.go:166 (Seq names the sequence sets of the Sequences module)
SeqP(x) == [k |-> "Seq", ps |-> x]

\* combinator.go:123; the predicate is the set of runes it accepts
Satisfy(x) == [k |-> "Satisfy", f |-> x]

\* basic.go:16
Pure(x) == [k |-> "Pure", val |-> x]

\* basic.go:26
Fail == [k |-> "Fail"]

\* basic.go:52
Str(x) == [k |-> "Str", str |-> x]

\* basic.go:206
String == [k |-> "String"]

\* combinator.go:91-95
OmitLeft(x, y) == Bind(x, [k |-> "OmitLeftK", q |-> y])

\* combinator.go:99-105
OmitRight(x, y) == Bind(x, [k |-> "OmitRightK", q |-> y])

\* a SepBy without the Pure([]T{}) alternative
SepByNoEmpty(x, y) ==
    OrElse(<<Bind(x, [k |-> "SepByK", p |-> x, sep |-> y])>>)

\* combinator.go:109-119
SepBy(x, y) ==
    OrElse(<<Bind(x, [k |-> "SepByK", p |-> x, sep |-> y]), Pure(<<>>)>>)

\* combinator.go:137-144; the predicate is the set of values it accepts
SatisfyWith(x, y) == Bind(x, [k |-> "SatisfyWithK", f |-> y])

\* combinator.go:182-190
Between(x, y, z) == Bind(x, [k |-> "BetweenK", q |-> y, r |-> z])

\* basic.go:39-43
Char(x) == Satisfy({x})

\* basic.go:105-109
Space == Satisfy({" ", "\t", "\n"})

\* basic.go:115-119
Spaces == Fmap(ZeroOrMore(Space), [k |-> "string"])

\* combinator.go:148-150
TrimLeft(x) == OmitLeft(Spaces, x)

\* combinator.go:154-156
TrimRight(x) == OmitRight(x, Spaces)

\* a Trim that strips the left side only
TrimOnlyLeft(x) == TrimLeft(x)

\* combinator.go:160-162
Trim(x) == TrimLeft(TrimRight(x))

\* basic.go:128
Symbol(x) == Trim(Str(x))

\* basic.go:65
Digit == Satisfy({"0", "1", "2", "3", "4", "5", "6", "7", "8", "9"})

\* basic.go:75
Digits == Fmap(OneOrMore(Digit), [k |-> "string"])

\* basic.go:137-146
Sign == Bind(ZeroOrOne(OrElse(<<Char("-"), Char("+")>>)), [k |-> "SignK"])

\* basic.go:152-157
IntegerWithoutSign == Fmap(Digits, [k |-> "ParseInt"])

\* basic.go:163-172
Integer == Bind(Sign, [k |-> "IntegerK"])

\* basic.go:178-185
FloatWithoutSign ==
    Fmap(SeqP(<<Digits, Fmap(Char("."), [k |-> "runeToString"]), Digits>>),
         [k |-> "ParseFloat"])

\* basic.go:191-200
Float == Bind(Sign, [k |-> "FloatK"])

\* combinator.go:194-198: the thunk is kept by name and called at parse time
Lazy(x) == [k |-> "Lazy", f |-> x]

-----------------------------------------------------------------------------
(* The JSON grammar built on the package.  A Json value is a record whose  *)
(* field type names the struct (JsonNull, JsonBool, JsonInt, JsonFloat,     *)
(* JsonString, JsonArray, JsonObject) and whose field Val is its Val.      *)

JNull == Fmap(Symbol(<<"n", "u", "l", "l">>), [k |-> "JsonNull"])

JBool ==
    Fmap(OrElse(<<Symbol(<<"t", "r", "u", "e">>), Symbol(<<"f", "a", "l", "s", "e">>)>>),
         [k |-> "JsonBool"])

JInt == Trim(Fmap(Integer, [k |-> "JsonInt"]))

JFloat == Trim(Fmap(Float, [k |-> "JsonFloat"]))

JString == Trim(Fmap(String, [k |-> "JsonString"]))

\* a JVal that tries the integer before the float
JValIntFirst ==
    OrElse(<<JString, JInt, JFloat, JBool, JNull, Lazy("JArray"), Lazy("JObject")>>)

JVal ==
    OrElse(<<JString, JFloat, JInt, JBool, JNull, Lazy("JArray"), Lazy("JObject")>>)

JArray ==
    Fmap(Between(Trim(Char("[")), SepBy(JVal, Trim(Char(","))), Trim(Char("]"))),
         [k |-> "JsonArray"])

JPair ==
    Fmap(SeqP(<<JString, Trim(Fmap(Char(":"), [k |-> "colon"])), JVal>>),
         [k |-> "JsonPair"])

\* a JObject whose pairs need no comma between them
JObjectCommaOptional ==
    Fmap(Between(Trim(Char("{")), SepBy(JPair, Trim(ZeroOrOne(Char(",")))), Trim(Char("}"))),
         [k |-> "JsonObject"])

JObject ==
    Fmap(Between(Trim(Char("{")), SepBy(JPair, Trim(Char(","))), Trim(Char("}"))),
         [k |-> "JsonObject"])

\* f() for the thunks handed to Lazy
Force(f) == CASE f = "JArray" -> JArray [] f = "JObject" -> JObject

\* the runes an INI text is written with
IniAlphabet == {"k", " ", "\n", "t", "s", "[", "]", "=", ";", "#", "v", "w"}

\* part_003:16-18: a rune that is not x
NotChar(x) == Satisfy(IniAlphabet \ {x})

\* part_003:12-30
ISectionName ==
    Between(Trim(Char("[")),
            Bind(ZeroOrMore(NotChar("]")), [k |-> "SectionNameK"]),
            Trim(Char("]")))

\* combinator.go:202-210, for T one of "rune" and "[]rune"
ToStringP(T, x, y) ==
    Fmap(IF y THEN Trim(x) ELSE x,
         IF T = "rune" THEN [k |-> "runeToString"] ELSE [k |-> "string"])

\* part_002:24-36: the ISectionName of part_002
ISectionName002 ==
    Between(Trim(Char("[")),
            ToStringP("[]rune", ZeroOrMore(NotChar("]")), TRUE),
            Trim(Char("]")))

\* part_002:59-72
IEntry ==
    Fmap(SeqP(<<ToStringP("[]rune", OneOrMore(NotChar("=")), TRUE),
                ToStringP("rune", Char("="), TRUE),
                ToStringP("[]rune", OneOrMore(NotChar("\n")), FALSE)>>),
         [k |-> "Entry"])

\* part_002:80-108: the IniParse of part_002
IniParse002 == [k |-> "IniParse002"]

\* part_003:39-64: the Parser that NewParser makes of the line scan
IniParse == [k |-> "IniParse"]

-----------------------------------------------------------------------------
(* container.go: Maybe[T], Tuple[U, V].  A ParserFuncRet[T] is             *)
(* Maybe[Tuple[T, string]]; Just(NewTuple(v, rest)) is one record.         *)

Nothing == [tag |-> "Nothing"]

Just(x, y) == [tag |-> "Just", First |-> x, Second |-> y]

IsJust(x) == x.tag = "Just"

IsNothing(x) == x.tag = "Nothing"

\* The call never returns a Maybe: the goroutine's stack is exhausted by an
\* unbounded recursion and the runtime ends the process.
StackOverflow == [tag |-> "StackOverflow"]

Aborted(x) == x.tag = "StackOverflow"

\* The call never returns a Maybe: an index expression outside the slice's
\* bounds panics, "index out of range [index] with length length".
IndexOutOfRange(x, y) == [tag |-> "IndexOutOfRange", index |-> x, length |-> y]

\* recv.Parse(arg)
ParseCall(x, y) == [fn |-> "Parse", recv |-> x, arg |-> y]

\* the closure recv called with arg
FnCall(x, y) == [fn |-> "f", recv |-> x, arg |-> y]

-----------------------------------------------------------------------------
(* Bounds of the model.                                                    *)

\* longest input string handed to a parser
MaxLen == 3

\* characters of the inputs that exercise the combinators
Alphabet == {" ", "\n", "a", ",", "b"}

\* characters of the inputs that exercise the quoted-string primitive
QuoteAlphabet == {"a", "\"", "\\"}

\* longest text handed to String on its own
MaxQuoted == 5

\* width in bits of the integers ParseInt returns (64 in basic.go:154)
IntBits == 5

\* longest text handed to Integer and Float on their own
MaxNumLen == 4

\* the characters of the texts handed to Integer and Float
NumAlphabet == {"0", "1", "6", "-", "+", ".", "a"}

\* most elements a caller puts between the brackets of a JSON text
MaxItems == 3

\* the most lines an INI text is composed of
MaxLines == 4

\* the most activations of a repetition closure the call stack holds; the
\* next one exhausts it
MaxDepth == 6

-----------------------------------------------------------------------------
(* The closures the package and its callers pass to Fmap and Bind.         *)

\* strings.ToUpper on the letters of the alphabet
UpperRune(c) == CASE c = "a" -> "A" [] c = "b" -> "B" [] OTHER -> c

\* the value of a decimal digit
DigitVal(c) ==
    CASE c = "0" -> 0 [] c = "1" -> 1 [] c = "2" -> 2 [] c = "3" -> 3 [] c = "4" -> 4
      [] c = "5" -> 5 [] c = "6" -> 6 [] c = "7" -> 7 [] c = "8" -> 8 [] c = "9" -> 9

\* the number a string of decimal digits writes
RECURSIVE Decimal(_)
Decimal(digits) ==
    IF digits = <<>> THEN 0
    ELSE 10 * Decimal(SubSeq(digits, 1, Len(digits) - 1)) + DigitVal(digits[Len(digits)])

RECURSIVE Pow(_, _)
Pow(b, n) == IF n = 0 THEN 1 ELSE b * Pow(b, n - 1)

\* the largest integer of bitSize bits
MaxInt(bitSize) == Pow(2, bitSize - 1) - 1

\* i, _ := strconv.ParseInt(digits, 10, bitSize) on a string of digits: the
\* value, or with a range error the largest integer of bitSize bits; the
\* error is dropped (basic.go:154)
ParseInt(digits, bitSize) ==
    IF Decimal(digits) > MaxInt(bitSize) THEN MaxInt(bitSize) ELSE Decimal(digits)

\* -i on an integer of bitSize bits
Negate(i, bitSize) ==
    IF i = -MaxInt(bitSize) - 1 THEN i ELSE -i

\* the digits without the zeros that end them
RECURSIVE StripZeros(_)
StripZeros(digits) ==
    IF digits # <<>> /\ digits[Len(digits)] = "0"
    THEN StripZeros(SubSeq(digits, 1, Len(digits) - 1))
    ELSE digits

\* f, _ := strconv.ParseFloat(text, 64) on digits "." digits: the number as
\* mant / 10^scale in lowest terms of ten (rounding to 53 bits is left out)
ParseFloat(text) ==
    LET dot == CHOOSE i \in 1..Len(text) : text[i] = "."
        frac == StripZeros(SubSeq(text, dot + 1, Len(text)))
    IN  [mant |-> Decimal(SubSeq(text, 1, dot - 1) \o frac), scale |-> Len(frac)]

\* strings.Join(strs, "")
RECURSIVE Join(_)
Join(strs) == IF strs = <<>> THEN <<>> ELSE strs[1] \o Join(Tail(strs))

\* a map build that keeps the value a key already has
RECURSIVE MakeObjectFirstWins(_, _, _)
MakeObjectFirstWins(pairs, i, obj) ==
    IF i > Len(pairs) THEN obj
    ELSE MakeObjectFirstWins(pairs, i + 1,
            [x \in DOMAIN obj \cup {pairs[i].Key} |->
                IF x \in DOMAIN obj THEN obj[x] ELSE pairs[i].Value])

\* part_000:118-121: obj[pair.Key] = pair.Value for the pairs from index i on
RECURSIVE MakeObject(_, _, _)
MakeObject(pairs, i, obj) ==
    IF i > Len(pairs) THEN obj
    ELSE MakeObject(pairs, i + 1,
            [x \in DOMAIN obj \cup {pairs[i].Key} |->
                IF x = pairs[i].Key THEN pairs[i].Value ELSE obj[x]])

\* unicode.IsSpace, for the runes of the inputs
IsSpace(c) == c \in {" ", "\t", "\n", "\r"}

\* strings.TrimSpace
RECURSIVE TrimSpace(_)
TrimSpace(s) ==
    IF s # <<>> /\ IsSpace(s[1]) THEN TrimSpace(SubSeq(s, 2, Len(s)))
    ELSE IF s # <<>> /\ IsSpace(s[Len(s)]) THEN TrimSpace(SubSeq(s, 1, Len(s) - 1))
    ELSE s

\* strings.Index: where sep first starts in s (1-based), 0 when it does not
\* occur
Index(s, sep) ==
    LET at == {i \in 1..(Len(s) - Len(sep) + 1) : SubSeq(s, i, i + Len(sep) - 1) = sep}
    IN  IF at = {} THEN 0 ELSE CHOOSE i \in at : \A j \in at : i <= j

\* strings.Split, for a sep that is not empty
RECURSIVE Split(_, _)
Split(s, sep) ==
    LET i == Index(s, sep)
    IN  IF i = 0 THEN <<s>>
        ELSE <<SubSeq(s, 1, i - 1)>> \o Split(SubSeq(s, i + Len(sep), Len(s)), sep)

\* a func(T) U handed to Fmap, applied to the parsed value
ApplyFn(f, v) ==
    CASE f.k = "identity" -> v
      [] f.k = "ToUpper"  -> [i \in 1..Len(v) |-> UpperRune(v[i])]
      \* string(rs): the string made of the runes, in order
      [] f.k = "string"   -> [i \in 1..Len(v) |-> v[i]]
      \* append([]T{first}, rest...)
      [] f.k = "prepend"  -> <<f.first>> \o v
      \* basic.go:153-156
      [] f.k = "ParseInt" -> ParseInt(v, IntBits)
      \* basic.go:165-170
      [] f.k = "SignedInt" -> IF f.sign = "-" THEN Negate(v, IntBits) ELSE v
      \* basic.go:180
      [] f.k = "runeToString" -> <<v>>
      \* basic.go:181-184
      [] f.k = "ParseFloat" -> ParseFloat(Join(v))
      \* basic.go:193-198
      [] f.k = "SignedFloat" ->
            IF f.sign = "-" THEN [mant |-> -v.mant, scale |-> v.scale] ELSE v
      \* part_000:27-29, 37-39, 46-48, 55-57, 64-66
      [] f.k = "JsonNull" -> [type |-> "JsonNull"]
      [] f.k = "JsonBool" -> [type |-> "JsonBool", Val |-> (v = <<"t", "r", "u", "e">>)]
      [] f.k = "JsonInt" -> [type |-> "JsonInt", Val |-> v]
      [] f.k = "JsonFloat" -> [type |-> "JsonFloat", Val |-> v]
      [] f.k = "JsonString" -> [type |-> "JsonString", Val |-> v]
      \* part_000:80-82
      [] f.k = "JsonArray" -> [type |-> "JsonArray", Val |-> v]
      \* part_000:95-97
      [] f.k = "colon" -> [type |-> "JsonString", Val |-> <<":">>]
      \* part_000:99-104
      [] f.k = "JsonPair" -> [Key |-> v[1].Val, Value |-> v[3]]
      \* part_000:117-123
      [] f.k = "JsonObject" -> [type |-> "JsonObject", Val |-> MakeObject(v, 1, <<>>)]
      \* part_002:68-70
      [] f.k = "Entry" -> [Key |-> TrimSpace(v[1]), Value |-> TrimSpace(v[3])]

\* a SepBy closure that wants at least one more separated element
SepByRestOneOrMore(p, sep, first) ==
    Fmap(OneOrMore(Bind(sep, [k |-> "SepByItemK", p |-> p])),
         [k |-> "prepend", first |-> first])

\* combinator.go:111-116: the closure SepBy hands to Bind
SepByRest(p, sep, first) ==
    Fmap(ZeroOrMore(Bind(sep, [k |-> "SepByItemK", p |-> p])),
         [k |-> "prepend", first |-> first])

\* a func(T) Parser[U] handed to Bind, applied to the parsed value
ApplyK(f, v) ==
    CASE f.k = "ConsK"        -> Pure(<<f.t>> \o v)
      [] f.k = "OmitLeftK"    -> f.q
      [] f.k = "OmitRightK"   -> Bind(f.q, [k |-> "PureK", t |-> v])
      [] f.k = "PureK"        -> Pure(f.t)
      [] f.k = "SepByK"       -> SepByRest(f.p, f.sep, v)
      [] f.k = "SepByItemK"   -> f.p
      [] f.k = "SatisfyWithK" -> IF v \in f.f THEN Pure(v) ELSE Fail
      [] f.k = "SeqK"         -> Bind(SeqP(f.tail), [k |-> "ConsK", t |-> v])
      [] f.k = "BetweenK"     -> Bind(f.q, [k |-> "BetweenQK", r |-> f.r])
      [] f.k = "BetweenQK"    -> Bind(f.r, [k |-> "PureK", t |-> v])
      \* a caller's continuation that picks the next parser by the value
      [] f.k = "ByValue"      -> IF v = f.key THEN f.hit ELSE f.miss
      \* basic.go:140-145
      [] f.k = "SignK"        -> IF v.tag = "Nothing" THEN Pure("+") ELSE Pure(v.value)
      \* basic.go:164-171
      [] f.k = "IntegerK"     -> Fmap(IntegerWithoutSign, [k |-> "SignedInt", sign |-> v])
      \* basic.go:192-199
      [] f.k = "FloatK"       -> Fmap(FloatWithoutSign, [k |-> "SignedFloat", sign |-> v])
      \* part_003:19-26
      [] f.k = "SectionNameK" -> IF TrimSpace(v) = <<>> THEN Fail ELSE Pure(TrimSpace(v))

-----------------------------------------------------------------------------
(* The parsers the callers build.  Every set holds parsers of one result   *)
(* type, as Go's type parameters require of the operands of a combinator.  *)

\* Parser[rune]
RuneParsers == {Char("a"), Char(","), Space, Satisfy({"a", "b"})}

\* a Parser[string] whose Parse never returns
Endless == Fmap(ZeroOrMore(Pure("a")), [k |-> "string"])

\* Parser[string]
StrParsers ==
    {Str(<<"a">>), Str(<<"a", "b">>), Str(<<"b">>), Str(<<>>), Pure(<<"b">>),
     Fail, String, Spaces, Trim(Str(<<"a">>)),
     OrElse(<<Str(<<"a">>), Str(<<"a", "b">>)>>), Endless}

\* Parser[[]T]
ListParsers ==
    {ZeroOrMore(Char("a")), OneOrMore(Str(<<"a">>)), SepBy(Str(<<"a">>), Char(",")),
     SeqP(<<Str(<<"a">>), Str(<<"b">>)>>), ZeroOrMore(Pure(<<>>))}

Operands == RuneParsers \cup StrParsers \cup ListParsers

\* values handed to Pure
PureVals == {<<>>, <<"b">>}

\* literals handed to Str
StrLits == {<<>>, <<"a">>, <<"b">>, <<",">>, <<"a", "b">>}

\* func(t T) T { return t }
IdentityFn == [k |-> "identity"]

\* func(string) string closures of the callers
StrFns == {IdentityFn, [k |-> "ToUpper"]}

\* func(string) Parser[string] closures of the callers
StrConts ==
    {[k |-> "OmitLeftK", q |-> Str(<<"b">>)],
     [k |-> "OmitLeftK", q |-> Str(<<",">>)],
     [k |-> "OmitLeftK", q |-> Pure(<<"b">>)],
     [k |-> "OmitLeftK", q |-> Fail],
     [k |-> "OmitRightK", q |-> Spaces],
     [k |-> "ByValue", key |-> <<"a">>, hit |-> Str(<<"b">>), miss |-> Fail],
     [k |-> "ByValue", key |-> <<"a", "b">>, hit |-> Str(<<",">>), miss |-> Fail],
     [k |-> "ByValue", key |-> <<"a">>, hit |-> Fail, miss |-> Pure(<<>>)]}

\* alternatives handed to OrElse
Alternatives ==
    {Str(<<"a">>), Str(<<"a", "b">>), Str(<<"b">>), Fail, Pure(<<"b">>),
     Trim(Str(<<"a">>)), Endless}

\* element and separator parsers handed to SepBy
Elements ==
    {Str(<<"a">>), Str(<<"a", "b">>), Char("a"), Satisfy({"a", "b"}),
     Trim(Str(<<"a">>)), Pure(<<"b">>), Str(<<>>)}

Separators == {Char(","), Trim(Char(",")), Space, Str(<<>>), Fail}

\* alternatives of the OrElse calls with three alternatives
ThreeWay == {Fail, Str(<<"a">>), Str(<<"a", "b">>)}

\* brackets and contents handed to Between
Openers == {Str(<<",">>), Trim(Str(<<",">>))}

Contents == {Str(<<"a">>), Pure(<<"b">>), Fail}

Closers == {Str(<<",">>), Str(<<"b">>)}

\* operands of OmitLeft and OmitRight
Lefts == {Str(<<"a">>), Spaces, Fail}

Rights == {Str(<<"b">>), Str(<<",">>)}

\* parsers handed to Seq
SeqItems == {Str(<<"a">>), Str(<<"b">>), Fail}

\* predicates handed to SatisfyWith, as the values they accept
StrPreds == {{}, {<<"a">>}, {<<"a", "b">>}}

Filtered ==
    {Str(<<"a">>), Str(<<"a", "b">>), Fail,
     OrElse(<<Str(<<"a">>), Str(<<"a", "b">>)>>),
     OrElse(<<Str(<<"a", "b">>), Str(<<"a">>)>>)}

\* the sequences over S of length lo..hi
SeqsOf(S, lo, hi) == UNION {[1..n -> S] : n \in lo..hi}

-----------------------------------------------------------------------------
(* The inputs.                                                             *)

RECURSIVE StringsOver(_, _)
StringsOver(A, n) ==
    IF n = 0 THEN {<<>>}
    ELSE LET shorter == StringsOver(A, n - 1)
         IN  shorter \cup {Append(w, c) : w \in {x \in shorter : Len(x) = n - 1}, c \in A}

Inputs == StringsOver(Alphabet, MaxLen) \cup StringsOver(QuoteAlphabet, MaxLen)

-----------------------------------------------------------------------------
(* The closure each combinator returns, applied to the input s.            *)

RECURSIVE Parse(_, _)

\* basic.go:16-20
PureParse(val, s) == Just(val, s)

\* basic.go:26-30
FailParse(s) == Nothing

\* s[1:]
Rest(s) == SubSeq(s, 2, Len(s))

\* combinator.go:123-133
SatisfyParse(f, s) ==
    IF Len(s) = 0 THEN Nothing
    ELSE IF s[1] \in f THEN Just(s[1], Rest(s))
    ELSE Nothing

\* strings.HasPrefix
HasPrefix(s, prefix) ==
    Len(s) >= Len(prefix) /\ SubSeq(s, 1, Len(prefix)) = prefix

\* a TrimPrefix that cuts the tail of s instead of its head
TrimPrefixCutsTail(s, prefix) ==
    IF HasPrefix(s, prefix) THEN SubSeq(s, 1, Len(s) - Len(prefix)) ELSE s

\* strings.TrimPrefix
TrimPrefix(s, prefix) ==
    IF HasPrefix(s, prefix) THEN SubSeq(s, Len(prefix) + 1, Len(s)) ELSE s

\* basic.go:52-59
StrParse(str, s) ==
    IF HasPrefix(s, str) THEN Just(str, TrimPrefix(s, str))
    ELSE Nothing

\* a scan loop that copies the backslash along with the character it escapes
RECURSIVE StringScanKeepsBackslash(_, _, _, _)
StringScanKeepsBackslash(s, i, b, escaped) ==
    IF i >= Len(s) THEN Nothing
    ELSE LET c == s[i + 1]
         IN  IF escaped THEN StringScanKeepsBackslash(s, i + 1, Append(b, c), FALSE)
             ELSE IF c = "\\" THEN StringScanKeepsBackslash(s, i + 1, Append(b, c), TRUE)
             ELSE IF c = "\"" THEN Just(b, SubSeq(s, i + 2, Len(s)))
             ELSE StringScanKeepsBackslash(s, i + 1, Append(b, c), FALSE)

\* basic.go:218-234: the scan loop from index i (0-based) over the text after
\* the opening quote, with the bytes b copied so far
RECURSIVE StringScan(_, _, _, _)
StringScan(s, i, b, escaped) ==
    IF i >= Len(s) THEN Nothing
    ELSE LET c == s[i + 1]
         IN  IF escaped THEN StringScan(s, i + 1, Append(b, c), FALSE)
             ELSE IF c = "\\" THEN StringScan(s, i + 1, b, TRUE)
             ELSE IF c = "\"" THEN Just(b, SubSeq(s, i + 2, Len(s)))
             ELSE StringScan(s, i + 1, Append(b, c), FALSE)

\* basic.go:206-239
StringParse(s) ==
    IF Len(s) = 0 \/ s[1] # "\"" THEN Nothing
    ELSE StringScan(Rest(s), 0, <<>>, FALSE)

\* an Fmap that hands back the input it was given instead of what p left
FmapParseKeepsInput(p, f, s) ==
    LET m == Parse(p, s)
    IN  IF IsJust(m) THEN Just(ApplyFn(f, m.First), s) ELSE m

\* combinator.go:7-16.  Whatever p returns that is not a Just (a Nothing, or
\* the call stack running out below) is what Fmap returns.
FmapParse(p, f, s) ==
    LET m == Parse(p, s)
    IN  IF IsJust(m) THEN Just(ApplyFn(f, m.First), m.Second) ELSE m

\* a Bind without the IsNothing check: Get() of a Nothing is the zero Tuple,
\* so f runs on the zero value and its parser on the empty string
BindParseUnchecked(p, f, s) ==
    LET m == Parse(p, s)
    IN  IF IsJust(m) THEN Parse(ApplyK(f, m.First), m.Second)
        ELSE IF IsNothing(m) THEN Parse(ApplyK(f, <<>>), <<>>)
        ELSE m

\* a Bind that, when p is an OrElse, goes back to p's next alternative if the
\* continuation fails after the first
BindParseBacktracking(p, f, s) ==
    LET m == Parse(p, s)
    IN  IF IsJust(m)
        THEN LET r == Parse(ApplyK(f, m.First), m.Second)
             IN  IF IsNothing(r) /\ p.k = "OrElse" /\ Len(p.ps) > 1
                 THEN Parse(Bind(OrElse(Tail(p.ps)), f), s)
                 ELSE r
        ELSE m

\* combinator.go:21-30
BindParse(p, f, s) ==
    LET m == Parse(p, s)
    IN  IF IsJust(m) THEN Parse(ApplyK(f, m.First), m.Second) ELSE m

\* a loop without the early return: the last alternative that succeeds wins
RECURSIVE OrElseLoopLastWins(_, _, _)
OrElseLoopLastWins(ps, i, s) ==
    IF i > Len(ps) THEN Nothing
    ELSE LET m == Parse(ps[i], s)
             later == OrElseLoopLastWins(ps, i + 1, s)
         IN  IF Aborted(m) THEN m
             ELSE IF IsJust(m) /\ IsNothing(later) THEN m
             ELSE later

\* combinator.go:36-42: the loop over ps from index i (1-based)
RECURSIVE OrElseLoop(_, _, _)
OrElseLoop(ps, i, s) ==
    IF i > Len(ps) THEN Nothing
    ELSE LET m == Parse(ps[i], s)
         IN  IF IsNothing(m) THEN OrElseLoop(ps, i + 1, s) ELSE m

\* combinator.go:34-44
OrElseParse(ps, s) == OrElseLoop(ps, 1, s)

\* a ZeroOrMore that, like OneOrMore, fails when p does
ZeroOrMoreParseFailing(p, s) ==
    LET m == Parse(p, s)
    IN  IF ~IsJust(m) THEN m
        ELSE IF m.Second = s THEN StackOverflow
        ELSE Parse(Bind(ZeroOrMore(p), [k |-> "ConsK", t |-> m.First]), m.Second)

\* combinator.go:48-59.  When p succeeds and leaves s itself, the recursive
\* call is ZeroOrMore(p).Parse(s) again: the recursion has no end.
ZeroOrMoreParse(p, s) ==
    LET m == Parse(p, s)
    IN  IF IsNothing(m) THEN Just(<<>>, s)
        ELSE IF Aborted(m) \/ m.Second = s THEN StackOverflow
        ELSE Parse(Bind(ZeroOrMore(p), [k |-> "ConsK", t |-> m.First]), m.Second)

\* a OneOrMore that, like ZeroOrMore, accepts no match at all
OneOrMoreParseLenient(p, s) ==
    LET m == Parse(p, s)
    IN  IF IsNothing(m) THEN Just(<<>>, s)
        ELSE IF Aborted(m) THEN m
        ELSE Parse(Bind(ZeroOrMore(p), [k |-> "ConsK", t |-> m.First]), m.Second)

\* combinator.go:63-74
OneOrMoreParse(p, s) ==
    LET m == Parse(p, s)
    IN  IF IsJust(m)
        THEN Parse(Bind(ZeroOrMore(p), [k |-> "ConsK", t |-> m.First]), m.Second)
        ELSE m

\* Maybe[T] as a parsed value: Nothing[T]() and Just(t.First)
NothingVal == [tag |-> "Nothing"]

JustVal(v) == [tag |-> "Just", value |-> v]

\* combinator.go:78-87
ZeroOrOneParse(p, s) ==
    LET m == Parse(p, s)
    IN  IF IsJust(m) THEN Just(JustVal(m.First), m.Second)
        ELSE IF IsNothing(m) THEN Just(NothingVal, s)
        ELSE m

\* combinator.go:166-178
SeqParse(ps, s) ==
    IF Len(ps) = 0 THEN Just(<<>>, s)
    ELSE Parse(Bind(ps[1], [k |-> "SeqK", tail |-> Tail(ps)]), s)

\* combinator.go:194-198
LazyParse(f, s) == Parse(Force(f), s)

\* a scan that takes a line starting with '#' for a line of the document
RECURSIVE IniScanKeepsHash(_, _, _)
IniScanKeepsHash(strs, i, sections) ==
    IF i > Len(strs) THEN Just([Sections |-> sections], <<>>)
    ELSE LET s == TrimSpace(strs[i])
             r == Parse(ISectionName, s)
             t == Split(s, <<"=">>)
         IN  IF s = <<>> \/ HasPrefix(s, <<";">>)
             THEN IniScanKeepsHash(strs, i + 1, sections)
             ELSE IF Aborted(r) THEN r
             ELSE IF IsJust(r)
             THEN IniScanKeepsHash(strs, i + 1,
                      Append(sections, [Name |-> r.First, Entries |-> <<>>]))
             ELSE IF Len(t) < 2 THEN IndexOutOfRange(1, Len(t))
             ELSE IF Len(sections) = 0 THEN IndexOutOfRange(-1, 0)
             ELSE IniScanKeepsHash(strs, i + 1,
                      [sections EXCEPT ![Len(sections)].Entries =
                          Append(@, [Key |-> TrimSpace(t[1]), Value |-> TrimSpace(t[2])])])

\* a scan that appends every entry to the first section
RECURSIVE IniScanFirstSection(_, _, _)
IniScanFirstSection(strs, i, sections) ==
    IF i > Len(strs) THEN Just([Sections |-> sections], <<>>)
    ELSE LET s == TrimSpace(strs[i])
             r == Parse(ISectionName, s)
             t == Split(s, <<"=">>)
         IN  IF s = <<>> \/ HasPrefix(s, <<";">>) \/ HasPrefix(s, <<"#">>)
             THEN IniScanFirstSection(strs, i + 1, sections)
             ELSE IF Aborted(r) THEN r
             ELSE IF IsJust(r)
             THEN IniScanFirstSection(strs, i + 1,
                      Append(sections, [Name |-> r.First, Entries |-> <<>>]))
             ELSE IF Len(t) < 2 THEN IndexOutOfRange(1, Len(t))
             ELSE IF Len(sections) = 0 THEN IndexOutOfRange(-1, 0)
             ELSE IniScanFirstSection(strs, i + 1,
                      [sections EXCEPT ![1].Entries =
                          Append(@, [Key |-> TrimSpace(t[1]), Value |-> TrimSpace(t[2])])])

\* part_003:43-61: the loop over strs from index i (1-based), with the
\* sections made so far.  t[1] of a line without '=' and sections[len-1] of
\* no sections are index expressions out of range.
RECURSIVE IniScan(_, _, _)
IniScan(strs, i, sections) ==
    IF i > Len(strs) THEN Just([Sections |-> sections], <<>>)
    ELSE LET s == TrimSpace(strs[i])
             r == Parse(ISectionName, s)
             t == Split(s, <<"=">>)
         IN  IF s = <<>> \/ HasPrefix(s, <<";">>) \/ HasPrefix(s, <<"#">>)
             THEN IniScan(strs, i + 1, sections)
             ELSE IF Aborted(r) THEN r
             ELSE IF IsJust(r)
             THEN IniScan(strs, i + 1,
                      Append(sections, [Name |-> r.First, Entries |-> <<>>]))
             ELSE IF Len(t) < 2 THEN IndexOutOfRange(1, Len(t))
             ELSE IF Len(sections) = 0 THEN IndexOutOfRange(-1, 0)
             ELSE IniScan(strs, i + 1,
                      [sections EXCEPT ![Len(sections)].Entries =
                          Append(@, [Key |-> TrimSpace(t[1]), Value |-> TrimSpace(t[2])])])

\* part_003:40-63
IniParseParse(s) == IniScan(Split(s, <<"\n">>), 1, <<>>)

\* part_002:85-104: the loop over strs from index i (1-based), with the
\* sections made so far.  The loop is left at the first line that is neither
\* a section header nor an entry.
RECURSIVE IniScan002(_, _, _)
IniScan002(strs, i, sections) ==
    IF i > Len(strs) THEN Just([Sections |-> sections], <<>>)
    ELSE LET s == TrimSpace(strs[i])
             r == Parse(ISectionName002, s)
             t == Parse(IEntry, s)
         IN  IF s = <<>> THEN IniScan002(strs, i + 1, sections)
             ELSE IF Aborted(r) THEN r
             ELSE IF IsJust(r)
             THEN IniScan002(strs, i + 1,
                      Append(sections, [Name |-> r.First, Entries |-> <<>>]))
             ELSE IF Aborted(t) THEN t
             ELSE IF IsNothing(t) THEN Just([Sections |-> sections], <<>>)
             ELSE IF Len(sections) = 0 THEN IndexOutOfRange(-1, 0)
             ELSE IniScan002(strs, i + 1,
                      [sections EXCEPT ![Len(sections)].Entries = Append(@, t.First)])

\* part_002:81-107
IniParse002Parse(s) == IniScan002(Split(s, <<"\n">>), 1, <<>>)

\* p.Parse(s): what the closure held by p returns on s
Parse(p, s) ==
    CASE p.k = "Pure"       -> PureParse(p.val, s)
      [] p.k = "Fail"       -> FailParse(s)
      [] p.k = "Satisfy"    -> SatisfyParse(p.f, s)
      [] p.k = "Str"        -> StrParse(p.str, s)
      [] p.k = "String"     -> StringParse(s)
      [] p.k = "Fmap"       -> FmapParse(p.p, p.f, s)
      [] p.k = "Bind"       -> BindParse(p.p, p.f, s)
      [] p.k = "OrElse"     -> OrElseParse(p.ps, s)
      [] p.k = "ZeroOrMore" -> ZeroOrMoreParse(p.p, s)
      [] p.k = "OneOrMore"  -> OneOrMoreParse(p.p, s)
      [] p.k = "ZeroOrOne"  -> ZeroOrOneParse(p.p, s)
      [] p.k = "Seq"        -> SeqParse(p.ps, s)
      [] p.k = "Lazy"       -> LazyParse(p.f, s)
      [] p.k = "IniParse"   -> IniParseParse(s)
      [] p.k = "IniParse002" -> IniParse002Parse(s)

\* combinator.go:36-42: the calls the loop over ps makes from index i on
RECURSIVE OrElseCalls(_, _, _)
OrElseCalls(ps, i, s) ==
    IF i > Len(ps) THEN <<>>
    ELSE IF IsNothing(Parse(ps[i], s))
         THEN <<ParseCall(ps[i], s)>> \o OrElseCalls(ps, i + 1, s)
         ELSE <<ParseCall(ps[i], s)>>

\* the calls a closure that starts with r := p.Parse(s) makes: that one, and
\* the calls after it when r is a Just
AfterFirst(p, s, after) ==
    IF IsJust(Parse(p, s)) THEN <<ParseCall(p, s)>> \o after
    ELSE <<ParseCall(p, s)>>

\* the calls the closure held by p makes itself on s, in the order it makes
\* them
Calls(p, s) ==
    CASE p.k = "Fmap" ->
            AfterFirst(p.p, s, <<FnCall(p.f, Parse(p.p, s).First)>>)
      [] p.k = "Bind" ->
            LET m == Parse(p.p, s)
            IN  AfterFirst(p.p, s, <<FnCall(p.f, m.First),
                                     ParseCall(ApplyK(p.f, m.First), m.Second)>>)
      [] p.k = "OrElse" -> OrElseCalls(p.ps, 1, s)
      [] p.k = "ZeroOrMore" \/ p.k = "OneOrMore" ->
            LET m == Parse(p.p, s)
            IN  AfterFirst(p.p, s,
                    <<ParseCall(Bind(ZeroOrMore(p.p), [k |-> "ConsK", t |-> m.First]),
                                m.Second)>>)
      [] p.k = "ZeroOrOne" -> <<ParseCall(p.p, s)>>
      [] p.k = "Seq" ->
            IF Len(p.ps) = 0 THEN <<>>
            ELSE <<ParseCall(Bind(p.ps[1], [k |-> "SeqK", tail |-> Tail(p.ps)]), s)>>
      [] p.k = "Lazy" -> <<ParseCall(Force(p.f), s)>>
      [] OTHER -> <<>>


-----------------------------------------------------------------------------
(* The state: the input a caller holds, the parser it built (by the        *)
(* operation op from the operands args), and what Parse returned.          *)

NoResult == [tag |-> "none"]

Init ==
    /\ input \in Inputs
    /\ op = "none"
    /\ args = <<>>
    /\ parser = [k |-> "none"]
    /\ result = NoResult
    /\ calls = <<>>

\* the caller builds p from the operands as and calls p.Parse(input)
Applied(name, as, p) ==
    /\ op = "none"
    /\ op' = name
    /\ args' = as
    /\ parser' = p
    /\ result' = Parse(p, input)
    /\ calls' = Calls(p, input)
    /\ UNCHANGED input

ParsePure == \E v \in PureVals : Applied("Pure", <<v>>, Pure(v))

ParseFail == Applied("Fail", <<>>, Fail)

ParseSatisfy == \E p \in RuneParsers : Applied("Satisfy", <<p.f>>, p)

ParseStr == \E str \in StrLits : Applied("Str", <<str>>, Str(str))

ParseString == Applied("String", <<>>, String)

ParseFmap ==
    \/ \E p \in Operands, f \in {IdentityFn} : Applied("Fmap", <<p, f>>, Fmap(p, f))
    \/ \E p \in StrParsers, f \in StrFns : Applied("Fmap", <<p, f>>, Fmap(p, f))

ParseBind ==
    \E p \in StrParsers \cup Filtered, f \in StrConts :
        Applied("Bind", <<p, f>>, Bind(p, f))

ParseOrElse ==
    \E ps \in SeqsOf(Alternatives, 0, 2) \cup SeqsOf(ThreeWay, 3, 3) :
        Applied("OrElse", ps, OrElse(ps))

ParseZeroOrMore == \E p \in Operands : Applied("ZeroOrMore", <<p>>, ZeroOrMore(p))

ParseOneOrMore == \E p \in Operands : Applied("OneOrMore", <<p>>, OneOrMore(p))

ParseZeroOrOne == \E p \in Operands : Applied("ZeroOrOne", <<p>>, ZeroOrOne(p))

ParseSepBy ==
    \E p \in Elements, sep \in Separators : Applied("SepBy", <<p, sep>>, SepBy(p, sep))

ParseSeq == \E ps \in SeqsOf(SeqItems, 0, 3) : Applied("Seq", ps, SeqP(ps))

ParseBetween ==
    \E p \in Openers, q \in Contents, r \in Closers :
        Applied("Between", <<p, q, r>>, Between(p, q, r))

ParseOmitLeft ==
    \E p \in Lefts, q \in Rights :
        Applied("OmitLeft", <<p, q>>, OmitLeft(p, q))

ParseOmitRight ==
    \E p \in Lefts, q \in Rights :
        Applied("OmitRight", <<p, q>>, OmitRight(p, q))

ParseTrimLeft == \E p \in Operands : Applied("TrimLeft", <<p>>, TrimLeft(p))

ParseTrimRight == \E p \in Operands : Applied("TrimRight", <<p>>, TrimRight(p))

ParseTrim == \E p \in Operands : Applied("Trim", <<p>>, Trim(p))

ParseTrimTrim == \E p \in Operands : Applied("TrimTrim", <<p>>, Trim(Trim(p)))

ParseSatisfyWith ==
    \E p \in Filtered, f \in StrPreds : Applied("SatisfyWith", <<p, f>>, SatisfyWith(p, f))

Next ==
    \/ ParsePure
    \/ ParseFail
    \/ ParseSatisfy
    \/ ParseStr
    \/ ParseString
    \/ ParseFmap
    \/ ParseBind
    \/ ParseOrElse
    \/ ParseZeroOrMore
    \/ ParseOneOrMore
    \/ ParseZeroOrOne
    \/ ParseSepBy
    \/ ParseSeq
    \/ ParseBetween
    \/ ParseOmitLeft
    \/ ParseOmitRight
    \/ ParseTrimLeft
    \/ ParseTrimRight
    \/ ParseTrim
    \/ ParseTrimTrim
    \/ ParseSatisfyWith

Spec == Init /\ [][Next]_vars

-----------------------------------------------------------------------------
(* Properties.                                                             *)

\* s[Len(s) - Len(t):] = t
IsSuffix(t, s) ==
    Len(t) <= Len(s) /\ SubSeq(s, Len(s) - Len(t) + 1, Len(s)) = t

\* C1: whenever a parser built from the primitives and combinators returns a
\* present result, the remaining input is a suffix of the input it was given.
RemainingIsSuffix ==
    (op # "none" /\ IsJust(result)) => IsSuffix(result.Second, input)

\* a state in which a parser consumed part of its input and left the rest
SuffixLeft ==
    /\ op = "Trim"
    /\ IsJust(result)
    /\ result.Second # <<>>
    /\ Len(result.Second) < Len(input)

\* the index of the first alternative of ps that does not fail on s, 0 if all do
FirstHit(ps, s) ==
    IF \A i \in 1..Len(ps) : IsNothing(Parse(ps[i], s)) THEN 0
    ELSE CHOOSE i \in 1..Len(ps) :
            /\ ~IsNothing(Parse(ps[i], s))
            /\ \A j \in 1..(i - 1) : IsNothing(Parse(ps[j], s))

\* C2: OrElse(p1, ..., pn).Parse(s) applies the alternatives in order, each to
\* the original input s, up to the first that succeeds, and returns exactly that
\* alternative's result; it is absent only when every alternative fails on s.
OrElseFirstSuccess ==
    op = "OrElse" =>
        LET j == FirstHit(args, input)
            n == IF j = 0 THEN Len(args) ELSE j
        IN  /\ calls = [i \in 1..n |-> ParseCall(args[i], input)]
            /\ IF j = 0 THEN IsNothing(result) ELSE result = Parse(args[j], input)
            /\ IsNothing(result) <=> \A i \in 1..Len(args) : IsNothing(Parse(args[i], input))

\* both alternatives match the input, with different results, and the first won
BothAlternativesMatch ==
    /\ op = "OrElse"
    /\ Len(args) = 2
    /\ IsJust(Parse(args[1], input))
    /\ IsJust(Parse(args[2], input))
    /\ Parse(args[1], input) # Parse(args[2], input)
    /\ result = Parse(args[1], input)

\* C3: Bind(p, f).Parse(s) is absent, and f is never invoked, when p fails on s;
\* when p succeeds with (v, rest) it is exactly f(v).Parse(rest).
BindPropagates ==
    op = "Bind" =>
        LET m == Parse(args[1], input)
        IN  /\ IsNothing(m) =>
                /\ IsNothing(result)
                /\ \A i \in 1..Len(calls) : calls[i].fn # "f"
            /\ IsJust(m) => result = Parse(ApplyK(args[2], m.First), m.Second)

\* p failed under a continuation whose parser succeeds on every input
BindFailedBeforeContinuation ==
    /\ op = "Bind"
    /\ IsNothing(Parse(args[1], input))
    /\ args[2] = [k |-> "OmitLeftK", q |-> Pure(<<"b">>)]
    /\ IsNothing(result)

\* p applied again and again from s, each time to what the last application
\* left: <<how it ends, the values in order, the input left>>.  It ends
\* "failed" when p fails, "stuck" when p succeeds without consuming input,
\* "aborted" when p never returns.
RECURSIVE Successive(_, _)
Successive(p, s) ==
    LET m == Parse(p, s)
    IN  IF Aborted(m) THEN <<"aborted", <<>>, s>>
        ELSE IF IsNothing(m) THEN <<"failed", <<>>, s>>
        ELSE IF Len(m.Second) >= Len(s) THEN <<"stuck", <<>>, s>>
        ELSE LET more == Successive(p, m.Second)
             IN  <<more[1], <<m.First>> \o more[2], more[3]>>

\* C4 as stated: for every parser p and input s, ZeroOrMore(p).Parse(s) is
\* present, with the empty sequence and s unchanged when p fails on s, and else
\* with p's successive results in order and the input left after the last one.
ZeroOrMoreAlwaysPresent ==
    op = "ZeroOrMore" =>
        LET c == Successive(args[1], input)
        IN  /\ IsJust(result)
            /\ IsNothing(Parse(args[1], input)) => result = Just(<<>>, input)
            /\ result = Just(c[2], c[3])

\* C4, amended: the same for every parser p and input s on which p, applied
\* again and again, returns each time and consumes input when it succeeds.
ZeroOrMoreCollects ==
    (op = "ZeroOrMore" /\ Successive(args[1], input)[1] = "failed") =>
        LET c == Successive(args[1], input)
        IN  /\ IsJust(result)
            /\ IsNothing(Parse(args[1], input)) => result = Just(<<>>, input)
            /\ result = Just(c[2], c[3])
            /\ IsNothing(Parse(args[1], result.Second))

\* p matched twice and then failed on what was left
ZeroOrMoreMatchedTwice ==
    /\ op = "ZeroOrMore"
    /\ IsJust(result)
    /\ Len(result.First) = 2
    /\ result.Second # <<>>

\* C5: OneOrMore(p).Parse(s) is absent exactly when p.Parse(s) is; when p
\* succeeds on s it is ZeroOrMore(p).Parse(s), a sequence of length >= 1.
OneOrMoreFailsIffFirstFails ==
    op = "OneOrMore" =>
        LET m == Parse(args[1], input)
        IN  /\ IsNothing(result) <=> IsNothing(m)
            /\ IsJust(m) =>
                /\ result = Parse(ZeroOrMore(args[1]), input)
                /\ IsJust(result) => Len(result.First) >= 1

\* p matched at least twice under OneOrMore
OneOrMoreMatched ==
    /\ op = "OneOrMore"
    /\ IsJust(result)
    /\ Len(result.First) >= 2
    /\ result.First[1] = Parse(args[1], input).First

\* After an element that left s: the (sep p)* that follows, as <<how it ends,
\* the element values in order, the input left after the last element>>.  It
\* ends "clean" when no separator follows (sep fails, or matches the empty
\* string with no element after it), "trailing" when sep consumes input and p
\* fails after it, "stuck" when sep and p match without consuming input,
\* "aborted" when one of them never returns.
RECURSIVE SeparatedTail(_, _, _)
SeparatedTail(p, sep, s) ==
    LET ms == Parse(sep, s)
    IN  IF Aborted(ms) THEN <<"aborted", <<>>, s>>
        ELSE IF IsNothing(ms) THEN <<"clean", <<>>, s>>
        ELSE LET mp == Parse(p, ms.Second)
             IN  IF Aborted(mp) THEN <<"aborted", <<>>, s>>
                 ELSE IF IsNothing(mp) /\ ms.Second = s THEN <<"clean", <<>>, s>>
                 ELSE IF IsNothing(mp) THEN <<"trailing", <<>>, s>>
                 ELSE IF Len(mp.Second) >= Len(s) THEN <<"stuck", <<>>, s>>
                 ELSE LET more == SeparatedTail(p, sep, mp.Second)
                      IN  <<more[1], <<mp.First>> \o more[2], more[3]>>

\* the input s read as p (sep p)*; "none" when p does not match at the start
Separated(p, sep, s) ==
    LET m == Parse(p, s)
    IN  IF Aborted(m) THEN <<"aborted", <<>>, s>>
        ELSE IF IsNothing(m) THEN <<"none", <<>>, s>>
        ELSE LET more == SeparatedTail(p, sep, m.Second)
             IN  <<more[1], <<m.First>> \o more[2], more[3]>>

\* C6 as stated: on one or more p-elements separated by sep and followed by a
\* final sep after which p does not match, SepBy(p, sep).Parse fails.
SepByRejectsTrailingSeparator ==
    (op = "SepBy" /\ Separated(args[1], args[2], input)[1] = "trailing") =>
        IsNothing(result)

\* C6, amended: on such an input SepBy(p, sep).Parse succeeds with the elements
\* before the final sep, and the remaining input starts at that final sep.
SepByLeavesTrailingSeparator ==
    (op = "SepBy" /\ Separated(args[1], args[2], input)[1] = "trailing") =>
        LET w == Separated(args[1], args[2], input)
        IN  /\ result = Just(w[2], w[3])
            /\ IsJust(Parse(args[2], result.Second))
            /\ IsNothing(Parse(args[1], Parse(args[2], result.Second).Second))

\* an element, then a separator that consumed input, then the end of the input
TrailingSeparatorAtEnd ==
    /\ op = "SepBy"
    /\ Separated(args[1], args[2], input)[1] = "trailing"
    /\ IsJust(result)
    /\ Len(result.First) >= 1
    /\ result.Second # <<>>
    /\ Parse(args[2], result.Second) = Just(",", <<>>)

\* C7: when p does not match at the start of s (the empty input included),
\* SepBy(p, sep).Parse(s) is present with the empty sequence and s unchanged;
\* on n >= 1 p-elements separated by sep it returns the n values in order.
SepByCollectsElements ==
    op = "SepBy" =>
        LET w == Separated(args[1], args[2], input)
        IN  /\ IsNothing(Parse(args[1], input)) => result = Just(<<>>, input)
            /\ w[1] = "clean" =>
                /\ result = Just(w[2], w[3])
                /\ Len(result.First) >= 1

\* two different elements with a separator between them, and nothing else
SepByTwoElements ==
    /\ op = "SepBy"
    /\ Separated(args[1], args[2], input)[1] = "clean"
    /\ IsJust(result)
    /\ Len(result.First) = 2
    /\ result.First[1] # result.First[2]
    /\ result.Second = <<>>
    /\ Len(input) = 3

\* C8: Bind(OrElse(p1, p2), f).Parse(s) is absent whenever p1 succeeds on s
\* with (v1, r1) and f(v1) fails on r1, whatever p2 and f(v2) would do; and
\* SatisfyWith(p, pred) is absent whenever p succeeds with a value pred rejects.
NoBacktrackingAcrossBind ==
    /\ (op = "Bind" /\ args[1].k = "OrElse" /\ Len(args[1].ps) = 2) =>
            LET m1 == Parse(args[1].ps[1], input)
            IN  (IsJust(m1) /\ IsNothing(Parse(ApplyK(args[2], m1.First), m1.Second)))
                    => IsNothing(result)
    /\ op = "SatisfyWith" =>
            LET m == Parse(args[1], input)
            IN  (IsJust(m) /\ m.First \notin args[2]) => IsNothing(result)

\* the continuation failed after p1 although it succeeds after p2
SecondAlternativeWouldSucceed ==
    /\ op = "Bind"
    /\ args[1].k = "OrElse"
    /\ Len(args[1].ps) = 2
    /\ LET m1 == Parse(args[1].ps[1], input)
           m2 == Parse(args[1].ps[2], input)
       IN  /\ IsJust(m1)
           /\ IsNothing(Parse(ApplyK(args[2], m1.First), m1.Second))
           /\ IsJust(m2)
           /\ IsJust(Parse(ApplyK(args[2], m2.First), m2.Second))
    /\ IsNothing(result)

\* C9: Fmap(p, identity).Parse(s) equals p.Parse(s); Fmap(p, f) is present
\* exactly when p is, with value f(v) and p's remaining input.
FmapFunctorLaw ==
    op = "Fmap" =>
        LET m == Parse(args[1], input)
        IN  /\ args[2] = IdentityFn => result = m
            /\ IsJust(result) <=> IsJust(m)
            /\ IsJust(m) =>
                /\ result.First = ApplyFn(args[2], m.First)
                /\ result.Second = m.Second

\* the identity mapped over a parser that consumed part of the input
FmapIdentityApplied ==
    /\ op = "Fmap"
    /\ args[2] = IdentityFn
    /\ IsJust(result)
    /\ result.Second # input
    /\ result.Second # <<>>

\* s without its leading spaces, tabs and newlines
RECURSIVE SkipSpaces(_)
SkipSpaces(s) ==
    IF s # <<>> /\ s[1] \in {" ", "\t", "\n"} THEN SkipSpaces(Rest(s)) ELSE s

\* C10: Trim(Trim(p)).Parse(s) equals Trim(p).Parse(s); a present result of
\* Trim(p) carries p's value and a remaining input that does not start with
\* a space, tab or newline.
TrimIdempotent ==
    /\ op = "TrimTrim" => result = Parse(Trim(args[1]), input)
    /\ (op = "Trim" /\ IsJust(result)) =>
            LET inner == Parse(args[1], SkipSpaces(input))
            IN  /\ IsJust(inner)
                /\ result.First = inner.First
                /\ result.Second = SkipSpaces(inner.Second)
                /\ result.Second = <<>> \/ result.Second[1] \notin {" ", "\t", "\n"}

\* whitespace on both sides of the match, trimmed twice
TrimmedTwice ==
    /\ op = "TrimTrim"
    /\ args[1] = Str(<<"a">>)
    /\ Len(input) = 3
    /\ input[1] \in {" ", "\n"}
    /\ input[3] \in {" ", "\n"}
    /\ result = Just(<<"a">>, <<>>)


-----------------------------------------------------------------------------
(* String() on its own, over texts of quotes, backslashes and letters.     *)

QuotedInputs == StringsOver(QuoteAlphabet, MaxQuoted)

InitString ==
    /\ input \in QuotedInputs
    /\ op = "none"
    /\ args = <<>>
    /\ parser = [k |-> "none"]
    /\ result = NoResult
    /\ calls = <<>>

NextString == ParseString

SpecString == InitString /\ [][NextString]_vars

\* the number of backslashes standing immediately before position i of s
RECURSIVE BackslashRun(_, _)
BackslashRun(s, i) ==
    IF i > 1 /\ s[i - 1] = "\\" THEN 1 + BackslashRun(s, i - 1) ELSE 0

\* the positions after the opening quote holding a quote no escape is active on
ClosingQuotes(s) ==
    {i \in 2..Len(s) : s[i] = "\"" /\ BackslashRun(s, i) % 2 = 0}

\* t with each backslash removed and the character after it kept as it is
RECURSIVE Unescape(_)
Unescape(t) ==
    IF t = <<>> THEN <<>>
    ELSE IF t[1] # "\\" THEN <<t[1]>> \o Unescape(Rest(t))
    ELSE IF Len(t) = 1 THEN <<>>
    ELSE <<t[2]>> \o Unescape(SubSeq(t, 3, Len(t)))

\* C11: String() is absent on an empty input, on an input not starting with
\* a quote, and when no unescaped closing quote follows (a dangling backslash
\* included); otherwise it returns the text up to the first unescaped quote
\* with each backslash removed and the character after it copied literally,
\* and the remaining input is the text after that quote.
StringScansToClosingQuote ==
    op = "String" =>
        IF input = <<>> \/ input[1] # "\"" \/ ClosingQuotes(input) = {}
        THEN IsNothing(result)
        ELSE LET i == CHOOSE j \in ClosingQuotes(input) :
                        \A h \in ClosingQuotes(input) : j <= h
             IN  result = Just(Unescape(SubSeq(input, 2, i - 1)),
                               SubSeq(input, i + 1, Len(input)))

\* an escaped quote inside the string, and text left after the closing quote
EscapedQuoteInside ==
    /\ op = "String"
    /\ IsJust(result)
    /\ result.First = <<"\"">>
    /\ result.Second = <<"a">>


-----------------------------------------------------------------------------
(* Integer() and Float() on their own, over texts of signs, digits, a dot  *)
(* and a letter.                                                           *)

NumInputs == StringsOver(NumAlphabet, MaxNumLen)

InitNumber ==
    /\ input \in NumInputs
    /\ op = "none"
    /\ args = <<>>
    /\ parser = [k |-> "none"]
    /\ result = NoResult
    /\ calls = <<>>

ParseSign == Applied("Sign", <<>>, Sign)

ParseDigits == Applied("Digits", <<>>, Digits)

ParseInteger == Applied("Integer", <<>>, Integer)

ParseFloating == Applied("Float", <<>>, Float)

NextNumber == ParseSign \/ ParseDigits \/ ParseInteger \/ ParseFloating

SpecNumber == InitNumber /\ [][NextNumber]_vars

\* the integer a text [+|-]d+ writes
SignedValue(text) ==
    IF text[1] = "-" THEN -Decimal(Rest(text))
    ELSE IF text[1] = "+" THEN Decimal(Rest(text))
    ELSE Decimal(text)

\* what a parse of input with the remaining input rest consumed
Consumed(s, rest) == SubSeq(s, 1, Len(s) - Len(rest))

\* C12: a present result of Integer() carries the mathematical value of the
\* signed digit string it consumed: the value itself when it lies in
\* [-2^(IntBits-1), 2^(IntBits-1) - 1], and no other value when it does not.
IntegerIsExact ==
    (op = "Integer" /\ IsJust(result)) =>
        result.First = SignedValue(Consumed(input, result.Second))


-----------------------------------------------------------------------------
(* ParseJSON.  The caller composes a text, then hands it to ParseJSON;     *)
(* args keeps the pieces the text was composed from.                       *)

Quoted(s) == <<"\"">> \o s \o <<"\"">>

JsonIntOf(n) == [type |-> "JsonInt", Val |-> n]

\* the elements a caller writes between brackets: key:value pairs and values
Items ==
    { [text |-> Quoted(<<"a">>) \o <<":", "1">>, Key |-> <<"a">>, Value |-> JsonIntOf(1),
       pair |-> TRUE],
      [text |-> Quoted(<<"a">>) \o <<":", "6">>, Key |-> <<"a">>, Value |-> JsonIntOf(6),
       pair |-> TRUE],
      [text |-> <<" ">> \o Quoted(<<"b">>) \o <<" ", ":", " ", "6", " ">>, Key |-> <<"b">>,
       Value |-> JsonIntOf(6), pair |-> TRUE],
      [text |-> <<"1">>, Key |-> <<>>, Value |-> JsonIntOf(1), pair |-> FALSE] }

\* what a caller writes between two elements
Gaps == {<<",">>, <<" ">>}

Opens == {<<"{">>, <<"[">>}

Closes == {<<"}">>, <<"]">>, <<",", "}">>, <<>>}

Trailers == {<<>>, <<"x">>}

\* complete JSON values, each with the Json it writes
Values ==
    { [text |-> <<"1">>, Value |-> JsonIntOf(1), number |-> TRUE],
      [text |-> <<"-", "1", ".", "6">>,
       Value |-> [type |-> "JsonFloat", Val |-> [mant |-> -16, scale |-> 1]],
       number |-> TRUE],
      [text |-> Quoted(<<"a">>), Value |-> [type |-> "JsonString", Val |-> <<"a">>],
       number |-> FALSE],
      [text |-> <<"t", "r", "u", "e">>, Value |-> [type |-> "JsonBool", Val |-> TRUE],
       number |-> FALSE],
      [text |-> <<"f", "a", "l", "s", "e">>, Value |-> [type |-> "JsonBool", Val |-> FALSE],
       number |-> FALSE],
      [text |-> <<" ", "n", "u", "l", "l">>, Value |-> [type |-> "JsonNull"],
       number |-> FALSE],
      [text |-> <<"[", "1", "]">>, Value |-> [type |-> "JsonArray", Val |-> <<JsonIntOf(1)>>],
       number |-> FALSE],
      [text |-> <<"{", "}">>, Value |-> [type |-> "JsonObject", Val |-> <<>>],
       number |-> FALSE] }

\* what a caller writes after a complete value
Tails ==
    {<<>>, <<" ">>, <<"x">>, <<" ", "x">>, <<",">>, <<"}", ",">>, <<".", "6">>, <<"6">>,
     <<"\n", "[">>}

\* the elements with the gaps between them
RECURSIVE Interleave(_, _)
Interleave(items, gaps) ==
    IF items = <<>> THEN <<>>
    ELSE IF Len(items) = 1 THEN items[1].text
    ELSE items[1].text \o gaps[1] \o Interleave(Tail(items), Tail(gaps))

InitJson ==
    /\ input = <<>>
    /\ op = "none"
    /\ args = <<>>
    /\ parser = [k |-> "none"]
    /\ result = NoResult
    /\ calls = <<>>

Composed(text, pieces) ==
    /\ input' = text
    /\ args' = pieces
    /\ op' = "text"
    /\ UNCHANGED <<parser, result, calls>>

ComposeNumber ==
    /\ op = "none"
    /\ \E s \in NumInputs : Composed(s, <<"number">>)

ComposeList ==
    /\ op = "none"
    /\ \E open \in Opens, close \in Closes, trailer \in Trailers, n \in 0..MaxItems :
          \E items \in [1..n -> Items] :
              \E gaps \in [1..(IF n = 0 THEN 0 ELSE n - 1) -> Gaps] :
                  Composed(open \o Interleave(items, gaps) \o close \o trailer,
                           <<"list", open, items, gaps, close, trailer>>)

ComposeValue ==
    /\ op = "none"
    /\ \E v \in Values, t \in Tails : Composed(v.text \o t, <<"value", v, t>>)

\* a ParseJSON that wants the whole text to be the value
ParseJSONWholeText ==
    /\ op = "text"
    /\ op' = "ParseJSON"
    /\ parser' = JVal
    /\ LET m == Parse(JVal, input)
       IN  result' = IF IsJust(m) /\ m.Second # <<>> THEN Nothing ELSE m
    /\ calls' = <<ParseCall(JVal, input)>>
    /\ UNCHANGED <<input, args>>

\* part_000:127-129
ParseJSON ==
    /\ op = "text"
    /\ op' = "ParseJSON"
    /\ parser' = JVal
    /\ result' = Parse(JVal, input)
    /\ calls' = <<ParseCall(JVal, input)>>
    /\ UNCHANGED <<input, args>>

NextJson == ComposeNumber \/ ComposeList \/ ComposeValue \/ ParseJSON

SpecJson == InitJson /\ [][NextJson]_vars


\* s is one or more decimal digits
AllDigits(s) == s # <<>> /\ \A i \in 1..Len(s) : s[i] \in Digit.f

\* s without the sign it may start with
Unsigned(s) == IF s # <<>> /\ s[1] \in {"-", "+"} THEN Rest(s) ELSE s

\* s has the form [sign] digits
IsIntegerText(s) == AllDigits(Unsigned(s))

\* s has the form [sign] digits "." digits
IsFloatText(s) ==
    \E i \in 1..Len(Unsigned(s)) :
        /\ Unsigned(s)[i] = "."
        /\ AllDigits(SubSeq(Unsigned(s), 1, i - 1))
        /\ AllDigits(SubSeq(Unsigned(s), i + 1, Len(Unsigned(s))))

\* C13: on [sign] digits "." digits ParseJSON returns a JsonFloat and leaves
\* nothing; on [sign] digits Float() fails and ParseJSON returns a JsonInt.
FloatBeforeInteger ==
    (op = "ParseJSON" /\ args[1] = "number") =>
        /\ IsFloatText(input) =>
                /\ IsJust(result)
                /\ result.First.type = "JsonFloat"
                /\ result.Second = <<>>
        /\ IsIntegerText(input) =>
                /\ IsNothing(Parse(Float, input))
                /\ IsJust(result)
                /\ result.First.type = "JsonInt"
                /\ result.Second = <<>>

\* a signed text with a fractional part came back as a float
SignedFloatParsed ==
    /\ op = "ParseJSON"
    /\ input = <<"-", "1", ".", "6">>
    /\ result = Just([type |-> "JsonFloat", Val |-> [mant |-> -16, scale |-> 1]], <<>>)


\* the pieces open, items, gaps, close of a composed list
ListOpen == args[2]

ListItems == args[3]

ListGaps == args[4]

ListClose == args[5]

\* the list is an object or an array as the grammar writes it: elements of
\* the bracket's kind, a comma in every gap, the matching closing bracket
WellFormedList ==
    /\ \A i \in 1..Len(ListGaps) : \E j \in 1..Len(ListGaps[i]) : ListGaps[i][j] = ","
    /\ \/ /\ ListOpen = <<"{">>
          /\ ListClose = <<"}">>
          /\ \A i \in 1..Len(ListItems) : ListItems[i].pair
       \/ /\ ListOpen = <<"[">>
          /\ ListClose = <<"]">>
          /\ \A i \in 1..Len(ListItems) : ~ListItems[i].pair

\* C14: ParseJSON is absent on an object with two pairs that only whitespace
\* separates; an object or array is present only if its elements are
\* comma-separated and the matching closing bracket follows them.
MissingCommaFails ==
    (op = "ParseJSON" /\ args[1] = "list") =>
        /\ ( /\ ListOpen = <<"{">>
             /\ \E i \in 1..Len(ListGaps) :
                    /\ ListItems[i].pair
                    /\ ListItems[i + 1].pair
                    /\ ListGaps[i] = <<" ">> ) => IsNothing(result)
        /\ IsJust(result) => WellFormedList

\* {"a":1 "a":6} was handed to ParseJSON
TwoPairsNoComma ==
    /\ op = "ParseJSON"
    /\ input = <<"{">> \o Quoted(<<"a">>) \o <<":", "1", " ">> \o Quoted(<<"a">>)
                \o <<":", "6", "}">>
    /\ IsNothing(result)


\* C15: whenever the text starts with a complete JSON value the result is
\* present, and what follows the value (less the whitespace the value's own
\* parser trims) is the remaining input; a number is read as far as its
\* digits and fraction go.
ParsesAPrefix ==
    /\ (op = "ParseJSON" /\ args[1] = "value") =>
            LET v == args[2]
                t == args[3]
            IN  /\ IsJust(result)
                /\ IsSuffix(result.Second, t)
                /\ ~(v.number /\ t # <<>> /\ t[1] \in Digit.f \cup {"."}) =>
                        result = Just(v.Value, SkipSpaces(t))
    /\ (op = "ParseJSON" /\ args[1] = "list" /\ WellFormedList) =>
            /\ IsJust(result)
            /\ result.Second = args[6]

\* a complete object with text after it
ObjectThenText ==
    /\ op = "ParseJSON"
    /\ args[1] = "list"
    /\ ListOpen = <<"{">>
    /\ Len(ListItems) = 2
    /\ IsJust(result)
    /\ result.Second = <<"x">>


\* the index of the last pair of the list written with the key
LastWith(key) ==
    CHOOSE i \in 1..Len(ListItems) :
        /\ ListItems[i].Key = key
        /\ \A j \in (i + 1)..Len(ListItems) : ListItems[j].Key # key

\* C16: the JsonObject of an object text holds one entry for each key of the
\* text, and its value is the value of the key's last occurrence.
DuplicateKeyLastWins ==
    (op = "ParseJSON" /\ args[1] = "list" /\ ListOpen = <<"{">> /\ WellFormedList) =>
        /\ IsJust(result)
        /\ result.First.type = "JsonObject"
        /\ DOMAIN result.First.Val = {ListItems[i].Key : i \in 1..Len(ListItems)}
        /\ \A key \in DOMAIN result.First.Val :
                result.First.Val[key] = ListItems[LastWith(key)].Value

\* a key written twice with another key between, and two values
KeyWrittenTwice ==
    /\ op = "ParseJSON"
    /\ args[1] = "list"
    /\ IsJust(result)
    /\ Len(ListItems) = 3
    /\ ListItems[1].Key = ListItems[3].Key
    /\ ListItems[1].Value # ListItems[3].Value
    /\ ListItems[2].Key # ListItems[1].Key
    /\ result.First.Val[<<"a">>] = JsonIntOf(6)


-----------------------------------------------------------------------------
(* The INI parser (part_003).  A caller composes a text of lines and hands *)
(* it to ParseINI.                                                        *)

\* the lines a text is composed of, each with what it writes: a section
\* header, an entry, a line to be skipped, or a line that is none of these
IniLines ==
    {[text |-> <<"[", "s", "]">>, Key |-> <<>>, Value |-> <<>>,
      Name |-> <<"s">>, kind |-> "header"],
     [text |-> <<"[", " ", "t", " ", "]">>, Key |-> <<>>, Value |-> <<>>,
      Name |-> <<"t">>, kind |-> "header"],
     [text |-> <<"k", "=", "v">>, Key |-> <<"k">>, Value |-> <<"v">>,
      Name |-> <<>>, kind |-> "entry"],
     [text |-> <<" ", "k", " ", "=", " ", "w", " ">>, Key |-> <<"k">>, Value |-> <<"w">>,
      Name |-> <<>>, kind |-> "entry"],
     [text |-> <<>>, Key |-> <<>>, Value |-> <<>>,
      Name |-> <<>>, kind |-> "skipped"],
     [text |-> <<" ">>, Key |-> <<>>, Value |-> <<>>,
      Name |-> <<>>, kind |-> "skipped"],
     [text |-> <<";", "k", "=", "v">>, Key |-> <<>>, Value |-> <<>>,
      Name |-> <<>>, kind |-> "skipped"],
     [text |-> <<" ", "#", "[", "s", "]">>, Key |-> <<>>, Value |-> <<>>,
      Name |-> <<>>, kind |-> "skipped"],
     [text |-> <<"k", "v">>, Key |-> <<>>, Value |-> <<>>,
      Name |-> <<>>, kind |-> "other"],
     [text |-> <<"[", "]">>, Key |-> <<>>, Value |-> <<>>,
      Name |-> <<>>, kind |-> "other"],
     [text |-> <<"k", "=", "v", "=", "w">>, Key |-> <<>>, Value |-> <<>>,
      Name |-> <<>>, kind |-> "other"]}

\* the texts of the lines with a newline between each two
RECURSIVE JoinLines(_)
JoinLines(lines) ==
    IF lines = <<>> THEN <<>>
    ELSE IF Len(lines) = 1 THEN lines[1].text
    ELSE lines[1].text \o <<"\n">> \o JoinLines(Tail(lines))

ComposeIni ==
    /\ op = "none"
    /\ \E n \in 0..MaxLines :
          \E lines \in [1..n -> IniLines] :
              Composed(JoinLines(lines), <<"lines", lines>>)

\* part_003:34-36
ParseINI ==
    /\ op = "text"
    /\ op' = "ParseINI"
    /\ parser' = IniParse
    /\ result' = Parse(IniParse, input)
    /\ calls' = <<ParseCall(IniParse, input)>>
    /\ UNCHANGED <<input, args>>

\* part_002:76-78
ParseINI002 ==
    /\ op = "text"
    /\ op' = "ParseINI002"
    /\ parser' = IniParse002
    /\ result' = Parse(IniParse002, input)
    /\ calls' = <<ParseCall(IniParse002, input)>>
    /\ UNCHANGED <<input, args>>

NextIni == ComposeIni \/ ParseINI \/ ParseINI002

SpecIni == InitJson /\ [][NextIni]_vars

\* the line is blank, or its first character that is not white space is
\* ';' or '#'
Skippable(line) ==
    \E i \in 1..(Len(line.text) + 1) :
        /\ \A j \in 1..(i - 1) : line.text[j] \in {" ", "\t"}
        /\ i = Len(line.text) + 1 \/ line.text[i] \in {";", "#"}

\* the line has an '=' somewhere
HasEquals(line) == \E i \in 1..Len(line.text) : line.text[i] = "="

\* the line is written as a section header: its first character that is not
\* white space is '['
Bracketed(line) ==
    \E i \in 1..Len(line.text) :
        /\ \A j \in 1..(i - 1) : line.text[j] \in {" ", "\t"}
        /\ line.text[i] = "["

\* the lines the text was composed of
Lines == args[2]

\* C17: after IniParse is applied to a text that has, below a section
\* header, a line that is not blank, not a comment, not a section header and
\* has no '=', the result is Nothing.
NoEqualsLineFails ==
    op \in {"ParseINI", "ParseINI002"}
    /\ (\E i \in 1..Len(Lines), j \in 1..Len(Lines) :
            /\ i < j
            /\ Lines[i].kind = "header"
            /\ ~Skippable(Lines[j])
            /\ ~Bracketed(Lines[j])
            /\ ~HasEquals(Lines[j]))
    => result = Nothing


\* C18: after IniParse is applied to a text whose first line that is not
\* blank and not a comment is an entry line (it has an '=' and is not
\* written as a section header), the result is Nothing.
EntryBeforeSectionFails ==
    op \in {"ParseINI", "ParseINI002"}
    /\ (\E j \in 1..Len(Lines) :
            /\ \A i \in 1..(j - 1) : Skippable(Lines[i])
            /\ ~Skippable(Lines[j])
            /\ ~Bracketed(Lines[j])
            /\ HasEquals(Lines[j]))
    => result = Nothing


\* the lines of the text that are not blank and not comments
Kept == SelectSeq(Lines, LAMBDA line : ~Skippable(line))

\* C19: IniParse applied to a text returns what it returns on the text
\* without its blank lines and its lines whose first character that is not
\* white space is ';' or '#', whenever that text is a well-formed document:
\* such lines, wherever they stand, change nothing.
CommentsAreSkipped ==
    op = "ParseINI" /\ IsJust(Parse(IniParse, JoinLines(Kept)))
    => result = Parse(IniParse, JoinLines(Kept))

\* a comment stands between a section header and an entry of the document
CommentInsideSection ==
    /\ op = "ParseINI"
    /\ IsJust(result)
    /\ \E i \in 1..Len(Lines), j \in 1..Len(Lines), n \in 1..Len(Lines) :
          /\ i < j /\ j < n
          /\ Lines[i].kind = "header"
          /\ Skippable(Lines[j]) /\ HasEquals(Lines[j])
          /\ Lines[n].kind = "entry"
          /\ Len(result.First.Sections) = 1
          /\ Len(result.First.Sections[1].Entries) = 1


\* the positions of the section headers among the lines
HeaderLines == {i \in 1..Len(Lines) : Lines[i].kind = "header"}

\* the positions of the entries that stand below the header at position i
\* and above the next header
EntryLines(i) ==
    {j \in (i + 1)..Len(Lines) :
        /\ Lines[j].kind = "entry"
        /\ \A h \in HeaderLines : ~(i < h /\ h < j)}

\* the n-th smallest member of a set of positions
Nth(S, n) == CHOOSE i \in S : Cardinality({j \in S : j <= i}) = n

\* the section the header at position i opens, as the lines write it
SectionAt(i) ==
    [Name |-> Lines[i].Name,
     Entries |-> [n \in 1..Cardinality(EntryLines(i)) |->
                    [Key |-> Lines[Nth(EntryLines(i), n)].Key,
                     Value |-> Lines[Nth(EntryLines(i), n)].Value]]]

\* every line is a header, an entry or a line to skip, and no entry stands
\* above the first header
WellFormedLines ==
    /\ \A i \in 1..Len(Lines) : Lines[i].kind # "other"
    /\ \A j \in 1..Len(Lines) :
          Lines[j].kind = "entry" => \E i \in HeaderLines : i < j

\* C20: IniParse applied to a well-formed text returns the document with one
\* section per header, in header order, each holding the entries written
\* between its header and the next, in line order, repeated keys included.
EntriesFollowTheirSection ==
    op = "ParseINI" /\ WellFormedLines
    => result = Just([Sections |-> [n \in 1..Cardinality(HeaderLines) |->
                                      SectionAt(Nth(HeaderLines, n))]],
                     <<>>)

\* two sections, the second with the same key written twice
RepeatedKeyInSecondSection ==
    /\ op = "ParseINI"
    /\ WellFormedLines
    /\ IsJust(result)
    /\ Len(result.First.Sections) = 2
    /\ result.First.Sections[1].Name # result.First.Sections[2].Name
    /\ result.First.Sections[1].Entries = <<>>
    /\ Len(result.First.Sections[2].Entries) = 2
    /\ result.First.Sections[2].Entries[1].Key = result.First.Sections[2].Entries[2].Key
    /\ result.First.Sections[2].Entries[1].Value # result.First.Sections[2].Entries[2].Value


\* how many '=' the line has
EqualsCount(line) == Cardinality({i \in 1..Len(line.text) : line.text[i] = "="})

\* C21: when IniParse returns a document, every line of the text that is not
\* blank, not a comment and not written as a section header has exactly one
\* '=': a line with two or more is not taken for an entry.
EntryHasOneEquals ==
    op = "ParseINI" /\ IsJust(result)
    => \A j \in 1..Len(Lines) :
          ~Skippable(Lines[j]) /\ ~Bracketed(Lines[j]) => EqualsCount(Lines[j]) = 1


-----------------------------------------------------------------------------
(* ZeroOrMore and OneOrMore, one activation at a time (combinator.go:48-74).*)
(* calls is the call stack: the activations of the repetition closures     *)
(* that have not returned, the innermost last.  args holds the repeated    *)
(* parser p, the values p has matched so far and the deepest the stack has *)
(* been.  The Bind closure that stands between an activation and the next  *)
(* (combinator.go:55-57, 70-72) is not counted.                            *)

\* the parsers that are repeated: three that consume whenever they succeed,
\* one that never succeeds, four that can succeed on nothing
Repeated ==
    {Char("a"), Space, Str(<<"a", "b">>), Fail,
     Pure("a"), Spaces, Str(<<>>), ZeroOrOne(Char("a"))}

\* the inputs of the repetitions
RepeatInputs == StringsOver({" ", "a", "b"}, MaxLen)

InitRepeat ==
    /\ input \in RepeatInputs
    /\ op = "none"
    /\ args = <<>>
    /\ parser = [k |-> "none"]
    /\ result = NoResult
    /\ calls = <<>>

\* p.Parse(s) for the repeated parsers and the inputs (every input left by a
\* match is a suffix of an input, so an input itself), as a function
ParseOf == [p \in Repeated, s \in RepeatInputs |-> Parse(p, s)]

\* the caller calls q.Parse(input), q a repetition of p
Called(q, p) ==
    /\ op' = "call"
    /\ parser' = q
    /\ args' = <<p, <<>>, 1>>
    /\ calls' = <<ParseCall(q, input)>>
    /\ UNCHANGED <<input, result>>

CallZeroOrMore ==
    /\ op = "none"
    /\ \E p \in Repeated : Called(ZeroOrMore(p), p)

CallOneOrMore ==
    /\ op = "none"
    /\ \E p \in Repeated : Called(OneOrMore(p), p)

\* combinator.go:50, 65: the innermost activation runs r := p.Parse(s)
Apply ==
    /\ op = "call"
    /\ op' = "applied"
    /\ result' = ParseOf[args[1], calls[Len(calls)].arg]
    /\ UNCHANGED <<input, parser, calls, args>>

\* an activation that hands the next one the input it was given itself
EnterSameInput ==
    /\ op = "applied"
    /\ LET top == calls[Len(calls)]
       IN  IF Aborted(result)
           THEN op' = "exhausted" /\ UNCHANGED <<result, args, calls>>
           ELSE IF IsNothing(result)
           THEN /\ op' = "return"
                /\ result' = IF top.recv.k = "OneOrMore" THEN Nothing
                              ELSE Just(<<>>, top.arg)
                /\ UNCHANGED <<args, calls>>
           ELSE IF Len(calls) = MaxDepth
           THEN op' = "exhausted" /\ result' = StackOverflow /\ UNCHANGED <<args, calls>>
           ELSE /\ op' = "call"
                /\ calls' = Append(calls, ParseCall(ZeroOrMore(args[1]), top.arg))
                /\ args' = <<args[1], Append(args[2], result.First), Len(calls) + 1>>
                /\ UNCHANGED result
    /\ UNCHANGED <<input, parser>>

\* combinator.go:51-57, 66-72: what the innermost activation does with r.
\* On a Nothing it returns (Just([], s) from ZeroOrMore, Nothing from
\* OneOrMore); otherwise it calls ZeroOrMore(p).Parse(t.Second), a new
\* activation, unless the stack has no room for one.
Enter ==
    /\ op = "applied"
    /\ LET top == calls[Len(calls)]
       IN  IF Aborted(result)
           THEN op' = "exhausted" /\ UNCHANGED <<result, args, calls>>
           ELSE IF IsNothing(result)
           THEN /\ op' = "return"
                /\ result' = IF top.recv.k = "OneOrMore" THEN Nothing
                              ELSE Just(<<>>, top.arg)
                /\ UNCHANGED <<args, calls>>
           ELSE IF Len(calls) = MaxDepth
           THEN op' = "exhausted" /\ result' = StackOverflow /\ UNCHANGED <<args, calls>>
           ELSE /\ op' = "call"
                /\ calls' = Append(calls, ParseCall(ZeroOrMore(args[1]), result.Second))
                /\ args' = <<args[1], Append(args[2], result.First), Len(calls) + 1>>
                /\ UNCHANGED result
    /\ UNCHANGED <<input, parser>>

\* combinator.go:55-57, 70-72: the innermost activation has returned result;
\* the one that called it returns Pure(append([]T{t.First}, ts...)) on what
\* is left.  When the outermost returns, the caller has its result.
Leave ==
    /\ op = "return"
    /\ IF Len(calls) = 1
       THEN op' = "done" /\ calls' = <<>> /\ UNCHANGED result
       ELSE /\ calls' = SubSeq(calls, 1, Len(calls) - 1)
            /\ result' = Just(<<args[2][Len(calls) - 1]>> \o result.First, result.Second)
            /\ UNCHANGED op
    /\ UNCHANGED <<input, parser, args>>

NextRepeat == CallZeroOrMore \/ CallOneOrMore \/ Apply \/ Enter \/ Leave

SpecRepeat == InitRepeat /\ [][NextRepeat]_vars

\* Every call is a direct function call on one goroutine: an activation
\* that can run its body does, and one that can return does.
SpecRepeatFair == SpecRepeat /\ WF_vars(Apply) /\ WF_vars(Enter) /\ WF_vars(Leave)


\* p returns on every suffix of the input, and whenever it succeeds it has
\* consumed at least one character
Consuming(p) ==
    \A i \in 1..(Len(input) + 1) :
        LET t == SubSeq(input, i, Len(input))
            m == Parse(p, t)
        IN  ~Aborted(m) /\ (IsJust(m) => Len(m.Second) < Len(t))

\* the innermost activation is about to apply p to an input on which p
\* succeeds and consumes nothing
Stuck ==
    /\ op = "call"
    /\ LET s == calls[Len(calls)].arg
       IN  IsJust(Parse(args[1], s)) /\ Parse(args[1], s).Second = s

\* the successful applications of p so far
Matches == Len(args[2])

\* the deepest the recursion has been
Depth == args[3]

\* C22: for a parser p that consumes at least one character whenever it
\* succeeds, a call of ZeroOrMore(p).Parse(s) or OneOrMore(p).Parse(s)
\* returns, after at most len(s) successful applications of p and with the
\* recursion as deep as the matches plus one, and what it returns is the
\* parser's result; once p has succeeded without consuming, the recursion
\* applies p to the same input again and the call never returns: it goes on
\* until the stack is exhausted.
RepetitionTerminates ==
    /\ [](op \in {"call", "applied", "return", "done"} /\ Consuming(args[1])
            => Matches <= Len(input) /\ Depth = Matches + 1 /\ Len(calls) <= Depth)
    /\ [](op = "done"
            => /\ result = Parse(parser, input)
               /\ IsJust(result) => Len(result.First) = Matches)
    /\ (op = "call" /\ Consuming(args[1]) ~> op = "done")
    /\ [](Stuck => [](op # "done"))
    /\ (Stuck ~> op = "exhausted" /\ Parse(parser, input) = StackOverflow)

\* ZeroOrMore(p) has returned two matches from a recursion three deep
TwoMatchesThreeDeep ==
    /\ op = "done"
    /\ parser.k = "ZeroOrMore"
    /\ Consuming(args[1])
    /\ IsJust(result)
    /\ Len(result.First) = 2
    /\ Depth = 3
    /\ result.Second # <<>>

====
